---- MODULE Spec2Model ----
(***************************************************************************)
(* Model of the hand-sign detection core of the BIM demo backend:          *)
(*   backend/hybrid_detector.py         HybridSignDetector (fast variant)  *)
(*   backend/accurate_sign_detector.py  AccurateSignDetector               *)
(*   backend/hand_detector.py           HandDetector                       *)
(*   backend/geometry_validator.py      GeometryValidator                  *)
(*                                                                         *)
(* Time (time.time()) is counted in ticks of 0.1 s, so the 2.0 s cache TTL *)
(* is 20 ticks and the 0.1 s minimum detection interval is 1 tick.         *)
(* Python dicts are functions from field names to values; the detection    *)
(* cache, whose insertion order Python keeps, is a sequence of entries.    *)
(***************************************************************************)
EXTENDS Integers, Sequences, FiniteSets, TLC

VARIABLES
    now,                  \* time.time(), in ticks of 0.1 s
    detection_cache,      \* self.detection_cache, entries in dict order
    last_detection_time,  \* self.last_detection_time
    op,                   \* the operation that ran last
    ret,                  \* what that operation returned
    arg,                  \* the input that operation was given
    lookup,               \* the last _get_cached_result: key, time, outcome
    pruned,               \* entries the last _cache_result removed for capacity
    survivors,            \* the cache right after that removal, before the insert
    stages,               \* pipeline stages the last request ran
    last_call,            \* the last classifier call: time issued, time done
    put_log,              \* per submitted key: result and time of its live put
    nops,                 \* operations run so far (bounds the exploration)
    reqs,                 \* concurrent requests: handler positions, event loop, calls
    demo                  \* /detect-demo: _demo_detection_counter and _last_second

vars == <<now, detection_cache, last_detection_time, op, ret, arg, lookup,
          pruned, survivors, stages, last_call, put_log, nops, reqs,
          demo>>

----------------------------------------------------------------------------
(* Program constants of HybridSignDetector.__init__ *)

cache_ttl == 20

max_cache_size == 50

min_detection_interval == 1

prune_batch == 10

best_model == "bim-recognition-x7qsz/10"

(* Bounds of the exploration *)

StartTime == 1

MaxOps == 3

NumNew == 2

\* The cache Init may start from: one entry short of max_cache_size.
PreFill == max_cache_size - 1

\* Clock steps between operations: one tick, or one tick short of the TTL.
TickSteps == {1, cache_ttl - 1}

----------------------------------------------------------------------------
(* Python values *)

None == [none |-> TRUE]

\* d[f] = v on a dict
Upd(d, f, v) == [g \in DOMAIN d \cup {f} |-> IF g = f THEN v ELSE d[g]]

\* d.get(f, default)
Get(d, f, default) == IF f \in DOMAIN d THEN d[f] ELSE default

\* A local binding: value is computed once and F applied to it.
With(value, F(_)) == CHOOSE y \in {F(x) : x \in {value}} : TRUE

\* image_hash in self.detection_cache
HasKey(cache, k) == \E i \in 1..Len(cache) : cache[i].key = k

IndexOf(cache, k) == CHOOSE i \in 1..Len(cache) : cache[i].key = k

\* del self.detection_cache[key]
DictDel(cache, k) == SelectSeq(cache, LAMBDA e : e.key # k)

\* self.detection_cache[key] = value: an existing key keeps its place
DictSet(cache, k, res, t) ==
    LET e == [key |-> k, result |-> res, timestamp |-> t]
    IN  IF HasKey(cache, k)
        THEN [cache EXCEPT ![IndexOf(cache, k)] = e]
        ELSE Append(cache, e)

KeysOf(cache) == {cache[i].key : i \in 1..Len(cache)}

----------------------------------------------------------------------------
(* HybridSignDetector: the detection cache *)

\* Position of entry i in sorted(keys, key=timestamp); sorted() is stable.
SortRank(cache, i) ==
    Cardinality({j \in 1..Len(cache) :
        \/ cache[j].timestamp < cache[i].timestamp
        \/ cache[j].timestamp = cache[i].timestamp /\ j < i})

OldestKeysUnsorted(cache) ==
    {cache[i].key : i \in 1..Len(cache) \cap 1..prune_batch}

\* sorted(self.detection_cache.keys(), key=timestamp)[:10]
oldest_keys(cache) ==
    {cache[i].key : i \in {j \in 1..Len(cache) : SortRank(cache, j) < prune_batch}}

AtCapacityOffByOne(cache) == Len(cache) > max_cache_size

\* len(self.detection_cache) >= self.max_cache_size
AtCapacity(cache) == Len(cache) >= max_cache_size

\* _cache_result(image_hash, result) at time t: the new cache, the entries
\* removed for capacity and the cache as it stood between removal and insert.
_cache_result(cache, image_hash, result, t) ==
    LET gone == IF AtCapacity(cache) THEN oldest_keys(cache) ELSE {}
        kept == SelectSeq(cache, LAMBDA e : e.key \notin gone)
    IN  [cache   |-> DictSet(kept, image_hash, result, t),
         pruned  |-> SelectSeq(cache, LAMBDA e : e.key \in gone),
         kept    |-> kept]

\* time.time() - cached_data["timestamp"] < self.cache_ttl
NotExpired(t, timestamp) == t - timestamp < cache_ttl

\* _get_cached_result(image_hash) at time t: the value returned (the stored
\* dict itself, not a copy) and the cache after the lookup.
_get_cached_result(cache, image_hash, t) ==
    IF HasKey(cache, image_hash)
    THEN LET cached_data == cache[IndexOf(cache, image_hash)]
         IN  IF NotExpired(t, cached_data.timestamp)
             THEN [result |-> cached_data.result, cache |-> cache]
             ELSE [result |-> None, cache |-> DictDel(cache, image_hash)]
    ELSE [result |-> None, cache |-> cache]

\* clear_cache()
clear_cache(cache) == <<>>

----------------------------------------------------------------------------
(* The cache driven through its own operations *)

\* A successful classification result as _classify_hand_sign builds it.
SuccessResult(label, confidence, count) ==
    [success |-> TRUE, label |-> label, confidence |-> confidence,
     model_used |-> best_model, predictions_count |-> count]

\* The cache after n successful detections of distinct images, one per tick.
Prefilled(n) ==
    [i \in 1..n |-> [key |-> i, result |-> SuccessResult("SAYA", 90, 1),
                     timestamp |-> StartTime + i]]

NewKeys == (PreFill + 1)..(PreFill + NumNew)

\* Keys the operations are tried on: the oldest and the newest prefilled one
\* and the new ones.
OpKeys == {1, PreFill} \cup NewKeys

PutResults == {SuccessResult("SAYA", 90, 1), SuccessResult("TOLONG", 80, 2)}

NoLookup == [key |-> 0, at |-> 0, result |-> None]

NoCall == [issued |-> -1, done |-> -1]

NoPuts == [k \in {} |-> None]

\* main.py: _demo_detection_counter = 0, and detect_demo has no _last_second
\* attribute until its first request with a hand.
NoDemo == [counter |-> 0, has_last_second |-> FALSE, last_second |-> 0]

NoReqs ==
    [pc |-> <<>>, key |-> <<>>, running |-> 0, served |-> <<>>,
     passes |-> <<>>, calls |-> <<>>]

InitCommon ==
    /\ op = "init"
    /\ ret = None
    /\ arg = None
    /\ lookup = NoLookup
    /\ pruned = <<>>
    /\ survivors = <<>>
    /\ stages = {}
    /\ last_call = NoCall
    /\ put_log = NoPuts
    /\ nops = 0
    /\ reqs = NoReqs
    /\ demo = NoDemo

InitCache ==
    /\ InitCommon
    /\ \/ detection_cache = <<>> /\ now = StartTime
       \/ detection_cache = Prefilled(PreFill) /\ now = StartTime + PreFill + 1
    /\ last_detection_time = 0

CachePut(k, r) ==
    /\ nops < MaxOps
    /\ LET c == _cache_result(detection_cache, k, r, now)
       IN  /\ detection_cache' = c.cache
           /\ pruned' = c.pruned
           /\ survivors' = c.kept
    /\ op' = "_cache_result"
    /\ arg' = [key |-> k, result |-> r]
    /\ ret' = None
    /\ nops' = nops + 1
    /\ UNCHANGED <<now, last_detection_time, lookup, stages, last_call, put_log,
                   reqs, demo>>

CacheGet(k) ==
    /\ nops < MaxOps
    /\ LET g == _get_cached_result(detection_cache, k, now)
       IN  /\ detection_cache' = g.cache
           /\ ret' = g.result
           /\ lookup' = [key |-> k, at |-> now, result |-> g.result]
    /\ op' = "_get_cached_result"
    /\ arg' = [key |-> k]
    /\ pruned' = <<>>
    /\ survivors' = <<>>
    /\ nops' = nops + 1
    /\ UNCHANGED <<now, last_detection_time, stages, last_call, put_log, reqs, demo>>

ClearCache ==
    /\ nops < MaxOps
    /\ detection_cache' = clear_cache(detection_cache)
    /\ op' = "clear_cache"
    /\ arg' = None
    /\ ret' = None
    /\ pruned' = <<>>
    /\ survivors' = <<>>
    /\ put_log' = NoPuts
    /\ nops' = nops + 1
    /\ UNCHANGED <<now, last_detection_time, lookup, stages, last_call, reqs, demo>>

\* The wall clock advances between operations.
Tick(d) ==
    /\ nops < MaxOps
    /\ now' = now + d
    /\ op' = "tick"
    /\ nops' = nops + 1
    /\ UNCHANGED <<detection_cache, last_detection_time, ret, arg, lookup,
                   pruned, survivors, stages, last_call, put_log, reqs,
                   demo>>

NextCache ==
    \/ \E k \in OpKeys, r \in PutResults : CachePut(k, r)
    \/ \E k \in OpKeys : CacheGet(k)
    \/ ClearCache
    \/ \E d \in TickSteps : Tick(d)

SpecCache == InitCache /\ [][NextCache]_vars

----------------------------------------------------------------------------
(* HybridSignDetector.detect_sign_fast *)

\* Python truth value of a lookup result: None and the empty dict are false.
Truthy(d) == d # None /\ DOMAIN d # {}

\* lambda x: x.get("confidence", 0)
PredConfidence(p) == Get(p, "confidence", 0)

\* max(predictions, key=confidence): the first prediction of highest confidence.
MaxPrediction(predictions) ==
    predictions[CHOOSE i \in 1..Len(predictions) :
        /\ \A j \in 1..Len(predictions) :
               PredConfidence(predictions[j]) <= PredConfidence(predictions[i])
        /\ \A j \in 1..(i - 1) :
               PredConfidence(predictions[j]) < PredConfidence(predictions[i])]

\* _classify_hand_sign(cropped_hand) of the fast variant. response is what the
\* external classifier did: raised, or returned a body.
hybrid_classify_hand_sign(response) ==
    IF response.raises
    THEN [success |-> FALSE, error |-> "classifier raised", model_used |-> best_model]
    ELSE IF "predictions" \in DOMAIN response.body /\ response.body.predictions # <<>>
    THEN LET best_prediction == MaxPrediction(response.body.predictions)
         IN  [success |-> TRUE,
              label |-> Get(best_prediction, "class", "unknown"),
              confidence |-> Get(best_prediction, "confidence", 0),
              model_used |-> best_model,
              predictions_count |-> Len(response.body.predictions)]
    ELSE [success |-> FALSE, error |-> "No predictions from model",
          model_used |-> best_model]

RateLimitedNever(t, ldt) == FALSE

\* time.time() - self.last_detection_time < self.min_detection_interval
RateLimited(t, ldt) == t - ldt < min_detection_interval

CacheHitNever(cached_result) == FALSE

\* if cached_result:
CacheHit(cached_result) == Truthy(cached_result)

ShouldCacheAlways(result) == TRUE

\* if result.get("success"):
ShouldCache(result) == Get(result, "success", FALSE)

\* The hit branch: the two fields are set on the dict the lookup returned,
\* which is the dict the cache entry holds.
serve_hit(cache, image_hash, cached_result, processing_time) ==
    LET r == Upd(Upd(cached_result, "processing_time", processing_time),
                 "from_cache", TRUE)
    IN  [ret   |-> r,
         cache |-> [cache EXCEPT ![IndexOf(cache, image_hash)].result = r]]

\* detect_sign_fast(image_data) for a request arriving at time t0. image says
\* what decoding and MediaPipe make of the bytes, response what the classifier
\* does if called, d1 and d2 the time the local stages and the classifier
\* call take. The record holds the returned dict and every effect.
detect_sign_fast(cache, ldt, t0, image, response, d1, d2) ==
    LET quiet == [cache |-> cache, ldt |-> ldt, lookup |-> NoLookup,
                  pruned |-> <<>>, kept |-> <<>>, call |-> NoCall, put |-> FALSE]
        t1 == t0 + d1
        t2 == t1 + d2
    IN
    IF RateLimited(t0, ldt)
    THEN [quiet EXCEPT !.put = FALSE] @@
         [ret |-> [success |-> FALSE, error |-> "Rate limited", processing_time |-> 0],
          stages |-> {}, end |-> t0]
    ELSE IF ~image.decodable
    THEN quiet @@
         [ret |-> [success |-> FALSE, error |-> "Invalid image data"],
          stages |-> {"decode"}, end |-> t1]
    ELSE IF image.hand \in {"none", "raises"}
    THEN quiet @@
         [ret |-> [success |-> FALSE, error |-> "No hand detected",
                   processing_time |-> t1 - t0],
          stages |-> {"decode", "extract"}, end |-> t1]
    ELSE IF image.hand = "degenerate"
    THEN quiet @@
         [ret |-> [success |-> FALSE, error |-> "resize of an empty crop raised",
                   processing_time |-> t1 - t0],
          stages |-> {"decode", "extract", "crop"}, end |-> t1]
    ELSE
    LET g == _get_cached_result(cache, image.hash, t1)
        seen == [key |-> image.hash, at |-> t1, result |-> g.result]
    IN
    IF CacheHit(g.result)
    THEN LET h == serve_hit(g.cache, image.hash, g.result, t1 - t0)
         IN  [quiet EXCEPT !.cache = h.cache, !.lookup = seen] @@
             [ret |-> h.ret,
              stages |-> {"decode", "extract", "crop", "lookup"}, end |-> t1]
    ELSE
    LET result == hybrid_classify_hand_sign(response)
        c == IF ShouldCache(result)
             THEN _cache_result(g.cache, image.hash, result, t2)
             ELSE [cache |-> g.cache, pruned |-> <<>>, kept |-> <<>>]
    IN  [cache |-> c.cache, ldt |-> t2, lookup |-> seen,
         pruned |-> c.pruned, kept |-> c.kept,
         call |-> [issued |-> t1, done |-> t2],
         put |-> ShouldCache(result),
         ret |-> Upd(Upd(result, "processing_time", t2 - t0), "from_cache", FALSE),
         stages |-> {"decode", "extract", "crop", "lookup", "classify"},
         end |-> t2]

----------------------------------------------------------------------------
(* The fast variant driven by requests, one after another *)

\* Hashes of the cropped regions of the images submitted.
ImageKeys == {PreFill} \cup NewKeys

\* Images that never reach the classifier: undecodable bytes, no hand, a
\* landmark model that raises, a hand whose crop region is empty.
HandlessImages ==
    {[decodable |-> FALSE, hand |-> "none", hash |-> 0]}
    \cup {[decodable |-> TRUE, hand |-> h, hash |-> 0] :
              h \in {"none", "raises", "degenerate"}}

HandImages == {[decodable |-> TRUE, hand |-> "ok", hash |-> k] : k \in ImageKeys}

NoResponse == [raises |-> TRUE]

Responses ==
    {[raises |-> TRUE],
     [raises |-> FALSE, body |-> [predictions |-> <<>>]],
     [raises |-> FALSE, body |-> [message |-> "no predictions field"]],
     [raises |-> FALSE, body |-> [predictions |->
         <<[class |-> "tolong", confidence |-> 40],
           [class |-> "SAYA", confidence |-> 90],
           [class |-> "YA", confidence |-> 90]>>]]}

\* Time a stage of a request takes: under a tick, or a tick.
Delays == {0, 1}

\* The put_log after a request: pruned keys leave it, a put enters it.
LogAfter(log, d, k) ==
    LET live == (DOMAIN log \ KeysOf(d.pruned)) \cup (IF d.put THEN {k} ELSE {})
    IN  [x \in live |->
            IF d.put /\ x = k
            THEN [result |-> d.cache[IndexOf(d.cache, k)].result, time |-> d.call.done]
            ELSE log[x]]

InitFast ==
    /\ op = "init"
    /\ ret = None
    /\ arg = None
    /\ lookup = NoLookup
    /\ pruned = <<>>
    /\ survivors = <<>>
    /\ stages = {}
    /\ nops = 0
    /\ reqs = NoReqs
    /\ demo = NoDemo
    /\ \/ /\ detection_cache = <<>>
          /\ now = StartTime
          /\ last_detection_time = 0
          /\ last_call = NoCall
          /\ put_log = NoPuts
       \/ /\ detection_cache = Prefilled(PreFill)
          /\ now = StartTime + PreFill + 1
          /\ last_detection_time = StartTime + PreFill
          /\ last_call = [issued |-> StartTime + PreFill, done |-> StartTime + PreFill]
          /\ put_log = [k \in {PreFill} |->
                           [result |-> Prefilled(PreFill)[k].result,
                            time |-> Prefilled(PreFill)[k].timestamp]]

DetectSignFast(image, response, d1, d2) ==
    /\ nops < MaxOps
    /\ LET d == detect_sign_fast(detection_cache, last_detection_time, now,
                                 image, response, d1, d2)
       IN  /\ detection_cache' = d.cache
           /\ last_detection_time' = d.ldt
           /\ now' = d.end
           /\ ret' = d.ret
           /\ lookup' = d.lookup
           /\ pruned' = d.pruned
           /\ survivors' = d.kept
           /\ stages' = d.stages
           /\ last_call' = IF d.call = NoCall THEN last_call ELSE d.call
           /\ put_log' = LogAfter(put_log, d, image.hash)
    /\ op' = "detect_sign_fast"
    /\ arg' = [image |-> image, arrived |-> now]
    /\ nops' = nops + 1
    /\ UNCHANGED <<reqs, demo>>

NextFast ==
    \/ \E image \in HandlessImages, d1 \in Delays :
           DetectSignFast(image, NoResponse, d1, 0)
    \/ \E image \in HandImages, response \in Responses, d1 \in Delays, d2 \in Delays :
           DetectSignFast(image, response, d1, d2)
    \/ ClearCache
    \/ \E d \in TickSteps : Tick(d)

SpecFast == InitFast /\ [][NextFast]_vars

----------------------------------------------------------------------------
(* The fast variant under concurrent requests: sign_to_text_fast handlers  *)
(* on the server's event loop                                              *)

\* Requests in flight together.
NumRequests == 2

\* Ticks the clock may advance while they are served.
MaxTicks == 3

Requests == 1..NumRequests

\* Hashes of the cropped regions the requests carry.
ConcKeys == {1, 2}

\* What the classifier may answer a request: a prediction, or none.
ConcResponses ==
    {[raises |-> FALSE, body |-> [predictions |-> <<>>]],
     [raises |-> FALSE, body |-> [predictions |->
         <<[class |-> "SAYA", confidence |-> 90]>>]]}

\* The cache after a detection of hash 1 that completed at time 0.
EarlierDetection == DictSet(<<>>, 1, SuccessResult("SAYA", 90, 1), 0)

\* Handlers run in worker threads: any position lets another handler run.
SuspendsAnywhere(pc) == TRUE

\* The positions at which a handler has given the event loop back: awaiting
\* file.read(), awaiting interpret_with_ai(), or returned. The endpoint is a
\* coroutine and detect_sign_fast a plain call inside it, so from the return
\* of file.read() to the return of detect_sign_fast nothing else runs.
Suspends(pc) == pc \in {"reading", "interpreting", "done"}

\* Request r may take its next step: the event loop is idle or is running r.
CanRun(r) == reqs.running \in {0, r}

\* reqs after request r moved to position pc.
Moved(q, r, pc) ==
    [q EXCEPT !.pc[r] = pc, !.running = IF Suspends(pc) THEN 0 ELSE r]

InitConc ==
    /\ now = StartTime
    /\ detection_cache \in {<<>>, EarlierDetection}
    /\ last_detection_time = 0
    /\ op = "init"
    /\ ret = None
    /\ arg = None
    /\ lookup = NoLookup
    /\ pruned = <<>>
    /\ survivors = <<>>
    /\ stages = {}
    /\ last_call = NoCall
    /\ put_log = NoPuts
    /\ nops = 0
    /\ demo = NoDemo
    /\ \E key \in [Requests -> ConcKeys] :
           reqs = [pc |-> [r \in Requests |-> "new"], key |-> key, running |-> 0,
                   served |-> [r \in Requests |-> "nothing"],
                   passes |-> <<>>, calls |-> <<>>]

\* The request arrives, its content type is checked, and the handler awaits
\* file.read().
Arrive(r) ==
    /\ reqs.pc[r] = "new"
    /\ CanRun(r)
    /\ reqs' = Moved(reqs, r, "reading")
    /\ op' = "arrive"
    /\ UNCHANGED <<now, detection_cache, last_detection_time, ret, arg, lookup,
                   pruned, survivors, stages, last_call, put_log, nops,
                   demo>>

\* file.read() has returned; the handler calls detect_sign_fast.
Enter(r) ==
    /\ reqs.pc[r] = "reading"
    /\ CanRun(r)
    /\ reqs' = Moved(reqs, r, "entered")
    /\ op' = "enter"
    /\ UNCHANGED <<now, detection_cache, last_detection_time, ret, arg, lookup,
                   pruned, survivors, stages, last_call, put_log, nops,
                   demo>>

\* The rate-limit check: the read of last_detection_time and the comparison.
\* A limited request gets the failure dict and the handler returns it.
RateCheck(r) ==
    /\ reqs.pc[r] = "entered"
    /\ CanRun(r)
    /\ IF RateLimited(now, last_detection_time)
       THEN /\ reqs' = [Moved(reqs, r, "done") EXCEPT !.served[r] = "limited"]
            /\ ret' = [success |-> FALSE, error |-> "Rate limited",
                       processing_time |-> 0]
       ELSE /\ reqs' = [Moved(reqs, r, "checked") EXCEPT
                            !.passes = Append(@, [req |-> r, at |-> now])]
            /\ ret' = ret
    /\ op' = "rate_check"
    /\ UNCHANGED <<now, detection_cache, last_detection_time, arg, lookup,
                   pruned, survivors, stages, last_call, put_log, nops,
                   demo>>

\* Decoding, hand detection, crop, hash and the cache lookup. A hit is
\* returned and the handler awaits interpret_with_ai(); a miss issues the
\* classifier call.
Lookup(r) ==
    /\ reqs.pc[r] = "checked"
    /\ CanRun(r)
    /\ LET k == reqs.key[r]
           g == _get_cached_result(detection_cache, k, now)
       IN  IF CacheHit(g.result)
           THEN LET h == serve_hit(g.cache, k, g.result, 0)
                IN  /\ detection_cache' = h.cache
                    /\ ret' = h.ret
                    /\ reqs' = [Moved(reqs, r, "interpreting") EXCEPT
                                    !.served[r] = "cache"]
           ELSE /\ detection_cache' = g.cache
                /\ ret' = ret
                /\ reqs' = [Moved(reqs, r, "calling") EXCEPT
                                !.calls = Append(@, [req |-> r, key |-> k,
                                                     issued |-> now, done |-> -1,
                                                     success |-> FALSE])]
    /\ op' = "lookup"
    /\ UNCHANGED <<now, last_detection_time, arg, lookup, pruned, survivors,
                   stages, last_call, put_log, nops, demo>>

\* The classifier call returns: the result is cached if successful,
\* last_detection_time is written, and detect_sign_fast returns. On success
\* the handler awaits interpret_with_ai(), otherwise it returns.
Classified(r, response) ==
    /\ reqs.pc[r] = "calling"
    /\ CanRun(r)
    /\ LET k == reqs.key[r]
           result == hybrid_classify_hand_sign(response)
           c == IF ShouldCache(result)
                THEN _cache_result(detection_cache, k, result, now)
                ELSE [cache |-> detection_cache, pruned |-> <<>>, kept |-> <<>>]
           i == CHOOSE j \in 1..Len(reqs.calls) :
                    reqs.calls[j].req = r /\ reqs.calls[j].done = -1
           pc == IF Get(result, "success", FALSE) THEN "interpreting" ELSE "done"
       IN  /\ detection_cache' = c.cache
           /\ last_detection_time' = now
           /\ ret' = Upd(Upd(result, "processing_time", 0), "from_cache", FALSE)
           /\ reqs' = [Moved(reqs, r, pc) EXCEPT
                           !.served[r] = "classifier",
                           !.calls[i].done = now,
                           !.calls[i].success = ShouldCache(result)]
    /\ op' = "classified"
    /\ UNCHANGED <<now, arg, lookup, pruned, survivors, stages, last_call,
                   put_log, nops, demo>>

\* interpret_with_ai() has returned; the handler builds the answer.
Respond(r) ==
    /\ reqs.pc[r] = "interpreting"
    /\ CanRun(r)
    /\ reqs' = Moved(reqs, r, "done")
    /\ op' = "respond"
    /\ UNCHANGED <<now, detection_cache, last_detection_time, ret, arg, lookup,
                   pruned, survivors, stages, last_call, put_log, nops,
                   demo>>

\* The clock advances, whatever the handlers are doing.
ClockTick ==
    /\ now < StartTime + MaxTicks
    /\ now' = now + 1
    /\ op' = "tick"
    /\ UNCHANGED <<detection_cache, last_detection_time, ret, arg, lookup,
                   pruned, survivors, stages, last_call, put_log, nops, reqs,
                   demo>>

NextConc ==
    \/ \E r \in Requests : Arrive(r)
    \/ \E r \in Requests : Enter(r)
    \/ \E r \in Requests : RateCheck(r)
    \/ \E r \in Requests : Lookup(r)
    \/ \E r \in Requests, response \in ConcResponses : Classified(r, response)
    \/ \E r \in Requests : Respond(r)
    \/ ClockTick

SpecConc == InitConc /\ [][NextConc]_vars

----------------------------------------------------------------------------
(* The /detect-demo endpoint of main.py: real hand detection, mocked      *)
(* labels that follow a series driven by _demo_detection_counter.         *)

MaxDemoOps == 10

\* Uploads: not an image, or an image in which detect_hands finds 0..2 hands.
DemoImages == [valid : BOOLEAN, hands : 0..2]

\* The clock moves by half a second, one second, or two and a half.
DemoSteps == {5, 10, 25}

\* int(time.time()) with time in ticks of 0.1 s.
current_second_at(t) == t \div 10

SecondChangedAlways(current_second, last_second) == TRUE

\* elif current_second != detect_demo._last_second
SecondChanged(current_second, last_second) == current_second # last_second

\* The counter update of a request in which a hand was detected.
series_step(d, current_second) ==
    IF ~d.has_last_second
    THEN [counter |-> 0, has_last_second |-> TRUE, last_second |-> current_second]
    ELSE IF SecondChanged(current_second, d.last_second)
         THEN [d EXCEPT !.last_second = current_second, !.counter = @ + 1]
         ELSE d

position_in_series(counter) == counter % 4

current_label(position) ==
    IF position = 0 THEN "tolong" ELSE IF position = 1 THEN "saya" ELSE None

series_state(position) == IF position \in {0, 1} THEN "active" ELSE "delay"

NoHandsDemo ==
    [success |-> FALSE,
     message |-> "No hands detected - please show your hand to the camera",
     num_hands |-> 0, method |-> "demo"]

\* The response of a request with num_hands > 0 at the given position.
detect_demo_response(num_hands, position) ==
    IF series_state(position) = "delay"
    THEN [success |-> FALSE,
          message |-> "Series delay - processing previous detections",
          num_hands |-> num_hands, series_state |-> "delay",
          position_in_series |-> position, method |-> "demo"]
    ELSE [success |-> TRUE, label |-> current_label(position),
          model_used |-> "demo", num_hands |-> num_hands,
          series_state |-> series_state(position),
          position_in_series |-> position, method |-> "demo"]

InitDemo ==
    /\ InitCommon
    /\ now = StartTime
    /\ detection_cache = <<>>
    /\ last_detection_time = 0

\* POST /detect-demo. Nothing suspends between the hand detection and the
\* return, so the counter update and the response are one step.
DetectDemo(image) ==
    /\ nops < MaxDemoOps
    /\ op' = "detect_demo"
    /\ arg' = image
    /\ nops' = nops + 1
    /\ IF ~image.valid
       THEN /\ ret' = [status_code |-> 400]
            /\ demo' = demo
       ELSE IF image.hands = 0
            THEN /\ ret' = NoHandsDemo
                 /\ demo' = demo
            ELSE /\ demo' = series_step(demo, current_second_at(now))
                 /\ ret' = detect_demo_response(image.hands,
                                                position_in_series(demo'.counter))
    /\ UNCHANGED <<now, detection_cache, last_detection_time, lookup, pruned,
                   survivors, stages, last_call, put_log, reqs>>

DemoClock(d) ==
    /\ nops < MaxDemoOps
    /\ now' = now + d
    /\ op' = "tick"
    /\ nops' = nops + 1
    /\ UNCHANGED <<detection_cache, last_detection_time, ret, arg, lookup,
                   pruned, survivors, stages, last_call, put_log, reqs, demo>>

NextDemo ==
    \/ \E image \in DemoImages : DetectDemo(image)
    \/ \E d \in DemoSteps : DemoClock(d)

SpecDemo == InitDemo /\ [][NextDemo]_vars

----------------------------------------------------------------------------
(* Numbers and strings of the classification and validation code.          *)
(* A Python float is a rational [n, d] in lowest terms, d > 0.             *)

RECURSIVE GCD(_, _)
GCD(a, b) == IF b = 0 THEN a ELSE GCD(b, a % b)

Abs(a) == IF a < 0 THEN -a ELSE a

Norm(r) ==
    LET g == GCD(Abs(r.n), r.d)
    IN  IF r.n = 0 THEN [n |-> 0, d |-> 1] ELSE [n |-> r.n \div g, d |-> r.d \div g]

R(n, d) == Norm([n |-> n, d |-> d])

Zero == R(0, 1)

One == R(1, 1)

RMul(a, b) ==
    LET g1 == IF a.n = 0 THEN 1 ELSE GCD(Abs(a.n), b.d)
        g2 == IF b.n = 0 THEN 1 ELSE GCD(Abs(b.n), a.d)
    IN  Norm([n |-> (a.n \div g1) * (b.n \div g2),
              d |-> (a.d \div g2) * (b.d \div g1)])

\* a / b for b > 0
RDiv(a, b) == RMul(a, [n |-> b.d, d |-> b.n])

RAdd(a, b) ==
    LET g == GCD(a.d, b.d)
    IN  Norm([n |-> a.n * (b.d \div g) + b.n * (a.d \div g),
              d |-> a.d * (b.d \div g)])

RLt(a, b) == a.n * b.d < b.n * a.d

RLeq(a, b) == a.n * b.d <= b.n * a.d

RMin(a, b) == IF RLeq(a, b) THEN a ELSE b

InUnit(a) == RLeq(Zero, a) /\ RLeq(a, One)

RECURSIVE RSum(_)
RSum(s) == IF s = <<>> THEN Zero ELSE RAdd(Head(s), RSum(Tail(s)))

\* np.mean(scores)
RMean(s) == RDiv(RSum(s), R(Len(s), 1))

\* The largest r with r * r <= n
RECURSIVE SqrtSearch(_, _, _)
SqrtSearch(n, lo, hi) ==
    IF lo >= hi THEN lo
    ELSE LET mid == (lo + hi + 1) \div 2
         IN  IF mid * mid <= n THEN SqrtSearch(n, mid, hi)
             ELSE SqrtSearch(n, lo, mid - 1)

ISqrt(n) == SqrtSearch(n, 0, 40000)

\* str.upper() and str.strip() on the labels the model draws from.
Upper(s) ==
    CASE s = "tolong"  -> "TOLONG"
      [] s = " saya "  -> " SAYA "
      [] s = "saya"    -> "SAYA"
      [] s = "the"     -> "THE"
      [] s = "Hello"   -> "HELLO"
      [] OTHER         -> s

Strip(s) ==
    CASE s = " saya "  -> "saya"
      [] s = " SAYA "  -> "SAYA"
      [] OTHER         -> s

----------------------------------------------------------------------------
(* GeometryValidator *)

\* self.sign_rules
sign_rules ==
    [l \in {"TOLONG", "TERIMA KASIH", "SAYA", "YA", "TIDAK"} |->
        CASE l = "TOLONG" ->
                 [fingers_extended |-> <<1, 1, 1, 1, 1>>, hand_openness_min |-> R(6, 10)]
          [] l = "TERIMA KASIH" ->
                 [fingers_extended |-> <<0, 0, 0, 0, 0>>, hand_openness_max |-> R(3, 10)]
          [] l = "SAYA" ->
                 [fingers_extended |-> <<0, 1, 0, 0, 0>>]
          [] l = "YA" ->
                 [fingers_extended |-> <<1, 0, 0, 0, 0>>, hand_openness_max |-> R(4, 10)]
          [] l = "TIDAK" ->
                 [fingers_extended |-> <<0, 1, 1, 0, 0>>]]

\* landmarks[i] of the Python list (indices from 0)
At(landmarks, i) == landmarks[i + 1]

\* _distance_2d(p1, p2), in tenths of a pixel, rounded down
_distance_2d(p1, p2) ==
    LET dx == p1.x - p2.x
        dy == p1.y - p2.y
    IN  ISqrt((dx * dx + dy * dy) * 100)

finger_indices == <<<<1, 3, 4>>, <<5, 7, 8>>, <<9, 11, 12>>, <<13, 15, 16>>, <<17, 19, 20>>>>

\* _get_finger_extension(landmarks): full / (segments + 1e-6) > 0.75
_get_finger_extension(landmarks) ==
    [f \in 1..5 |->
        LET base == At(landmarks, finger_indices[f][1])
            mid  == At(landmarks, finger_indices[f][2])
            tip  == At(landmarks, finger_indices[f][3])
            full_dist == _distance_2d(base, tip)
            segment_dist == _distance_2d(base, mid) + _distance_2d(mid, tip)
        IN  IF 4 * full_dist > 3 * segment_dist THEN 1 ELSE 0]

fingertip_indices == <<4, 8, 12, 16, 20>>

\* _calculate_hand_openness(landmarks): min(mean pairwise distance / 200, 1)
_calculate_hand_openness(landmarks) ==
    LET pairs == {<<i, j>> \in (1..5) \X (1..5) : i < j}
        dist(p) == _distance_2d(At(landmarks, fingertip_indices[p[1]]),
                                At(landmarks, fingertip_indices[p[2]]))
        Total[S \in SUBSET pairs] ==
            IF S = {} THEN 0
            ELSE LET p == CHOOSE q \in S : TRUE IN dist(p) + Total[S \ {p}]
    IN  RMin(R(Total[pairs], Cardinality(pairs) * 200 * 10), One)

\* sum(1 for lm in landmarks if lm.get('visibility', 1.0) > 0.5), in percent
visible_count(landmarks) ==
    Cardinality({i \in 1..Len(landmarks) : Get(landmarks[i], "visibility", 100) > 50})

\* visible_count < 15
MinVisible == 15

\* _calculate_features(landmarks)
_calculate_features(landmarks) ==
    IF visible_count(landmarks) < MinVisible
    THEN [insufficient_visibility |-> TRUE]
    ELSE [fingers_extended |-> _get_finger_extension(landmarks),
          hand_openness |-> _calculate_hand_openness(landmarks)]

\* _calculate_match_score with no penalty below hand_openness_min.
match_score_no_min_penalty(features, expected) ==
    LET finger ==
            <<R(Cardinality({f \in 1..5 :
                  expected.fingers_extended[f] = features.fingers_extended[f]}), 5)>>
        actual_openness == features.hand_openness
        lower == IF "hand_openness_min" \in DOMAIN expected THEN <<One>> ELSE <<>>
        upper ==
            IF "hand_openness_max" \in DOMAIN expected
            THEN IF RLeq(actual_openness, expected.hand_openness_max)
                 THEN <<One>>
                 ELSE <<RDiv(expected.hand_openness_max, actual_openness)>>
            ELSE <<>>
    IN  RMean(finger \o lower \o upper)

\* _calculate_match_score(features, expected)
_calculate_match_score(features, expected) ==
    LET finger ==
            IF "fingers_extended" \in DOMAIN expected
            THEN <<R(Cardinality({f \in 1..5 :
                        expected.fingers_extended[f] = features.fingers_extended[f]}), 5)>>
            ELSE <<>>
        actual_openness == features.hand_openness
        lower ==
            IF "hand_openness_min" \in DOMAIN expected
            THEN IF RLeq(expected.hand_openness_min, actual_openness)
                 THEN <<One>>
                 ELSE <<RDiv(actual_openness, expected.hand_openness_min)>>
            ELSE <<>>
        upper ==
            IF "hand_openness_max" \in DOMAIN expected
            THEN IF RLeq(actual_openness, expected.hand_openness_max)
                 THEN <<One>>
                 ELSE <<RDiv(expected.hand_openness_max, actual_openness)>>
            ELSE <<>>
        scores == finger \o lower \o upper
    IN  IF scores # <<>> THEN RMean(scores) ELSE One

\* label_upper in self.sign_rules, label_upper = predicted_label.upper()
HasRule(predicted_label) == Upper(predicted_label) \in DOMAIN sign_rules

LowVisibilityFactorNone == One

\* confidence * 0.9
LowVisibilityFactor == R(9, 10)

\* validate_prediction with the visibility test ahead of the rule test.
validate_visibility_first(landmarks, predicted_label, confidence) ==
    LET features == _calculate_features(landmarks)
    IN
    IF Get(features, "insufficient_visibility", FALSE)
    THEN [validated |-> TRUE, confidence |-> RMul(confidence, LowVisibilityFactor),
          geometry_score |-> R(9, 10),
          reason |-> "Low visibility - skipping validation",
          steps |-> <<"features">>]
    ELSE IF ~HasRule(predicted_label)
    THEN [validated |-> TRUE, confidence |-> confidence, geometry_score |-> One,
          reason |-> "No geometric rules defined",
          steps |-> <<"features", "rule_membership">>]
    ELSE
    LET geometry_score ==
            _calculate_match_score(features, sign_rules[Upper(predicted_label)])
    IN  [validated |-> RLt(R(1, 2), geometry_score),
         confidence |-> RMul(confidence, geometry_score),
         geometry_score |-> geometry_score,
         features |-> features,
         reason |-> "Geometry",
         steps |-> <<"features", "rule_membership", "rule_fetch", "match_score">>]

\* validate_prediction(landmarks, predicted_label, confidence). steps lists
\* what the call evaluated, in order.
validate_prediction(landmarks, predicted_label, confidence) ==
    IF ~HasRule(predicted_label)
    THEN [validated |-> TRUE, confidence |-> confidence, geometry_score |-> One,
          reason |-> "No geometric rules defined",
          steps |-> <<"rule_membership">>]
    ELSE
    LET features == _calculate_features(landmarks)
    IN
    IF Get(features, "insufficient_visibility", FALSE)
    THEN [validated |-> TRUE, confidence |-> RMul(confidence, LowVisibilityFactor),
          geometry_score |-> R(9, 10),
          reason |-> "Low visibility - skipping validation",
          steps |-> <<"rule_membership", "features">>]
    ELSE
    LET expected == sign_rules[Upper(predicted_label)]
        geometry_score == _calculate_match_score(features, expected)
        validated == RLt(R(1, 2), geometry_score)
    IN  [validated |-> validated,
         confidence |-> RMul(confidence, geometry_score),
         geometry_score |-> geometry_score,
         features |-> features,
         reason |-> IF validated THEN "Geometry match" ELSE "Geometry mismatch",
         steps |-> <<"rule_membership", "features", "rule_fetch", "match_score">>]

----------------------------------------------------------------------------
(* Bounding boxes: HandDetector.detect_hands and
   HybridSignDetector._detect_hand_region. The landmark model returns
   normalised coordinates, here in thousandths of the image side. *)

\* int(a / b) for b > 0: Python's int() truncates toward zero.
Trunc(a, b) == IF a >= 0 THEN a \div b ELSE -((-a) \div b)

Max2(a, b) == IF a >= b THEN a ELSE b

Min2(a, b) == IF a <= b THEN a ELSE b

SetMin(S) == CHOOSE m \in S : \A v \in S : m <= v

SetMax(S) == CHOOSE m \in S : \A v \in S : m >= v

\* int(min(lm.x * w for lm in hand_landmarks)) and the three like it
PixelMin(hand_landmarks, axis, side) ==
    Trunc(SetMin({hand_landmarks[i][axis] : i \in DOMAIN hand_landmarks}) * side, 1000)

PixelMax(hand_landmarks, axis, side) ==
    Trunc(SetMax({hand_landmarks[i][axis] : i \in DOMAIN hand_landmarks}) * side, 1000)

\* int(extent * 0.2) for an extent >= 0
padding_of(extent) == extent \div 5

\* The bbox dict detect_hands builds for one hand in an image of w by h.
detect_hands_bbox(hand_landmarks, w, h) ==
    LET x_min0 == PixelMin(hand_landmarks, "x", w)
        x_max0 == PixelMax(hand_landmarks, "x", w)
        y_min0 == PixelMin(hand_landmarks, "y", h)
        y_max0 == PixelMax(hand_landmarks, "y", h)
        padding_x == padding_of(x_max0 - x_min0)
        padding_y == padding_of(y_max0 - y_min0)
        x_min == Max2(0, x_min0 - padding_x)
        y_min == Max2(0, y_min0 - padding_y)
        x_max == Min2(w, x_max0 + padding_x)
        y_max == Min2(h, y_max0 + padding_y)
        bbox_width == x_max - x_min
        bbox_height == y_max - y_min
    IN  [x |-> R(2 * x_min + bbox_width, 2),
         y |-> R(2 * y_min + bbox_height, 2),
         width |-> bbox_width, height |-> bbox_height,
         x_min |-> x_min, y_min |-> y_min, x_max |-> x_max, y_max |-> y_max]

hybrid_padding == 30

\* _detect_hand_region: the tuple (x, y, width, height)
_detect_hand_region(hand_landmarks, w, h) ==
    LET x_min0 == PixelMin(hand_landmarks, "x", w)
        x_max0 == PixelMax(hand_landmarks, "x", w)
        y_min0 == PixelMin(hand_landmarks, "y", h)
        y_max0 == PixelMax(hand_landmarks, "y", h)
        x_min == Max2(0, x_min0 - hybrid_padding)
        y_min == Max2(0, y_min0 - hybrid_padding)
        x_max == Min2(w, x_max0 + hybrid_padding)
        y_max == Min2(h, y_max0 + hybrid_padding)
    IN  <<x_min, y_min, x_max - x_min, y_max - y_min>>

\* len(range(n)[a:b]): the extent of a slice a:b of an axis of n pixels.
SliceLen(n, a, b) ==
    LET lo == IF a < 0 THEN Max2(0, a + n) ELSE Min2(a, n)
        hi == IF b < 0 THEN Max2(0, b + n) ELSE Min2(b, n)
    IN  Max2(0, hi - lo)

\* HandDetector.crop_hand_region on an image of w by h: the image returned.
crop_hand_region(w, h, bbox) ==
    IF SliceLen(h, bbox.y_min, bbox.y_max) > 0
       /\ SliceLen(w, bbox.x_min, bbox.x_max) > 0
    THEN [raises |-> FALSE, width |-> 320, height |-> 320, black |-> FALSE]
    ELSE [raises |-> FALSE, width |-> 320, height |-> 320, black |-> TRUE]

\* HybridSignDetector._crop_to_hand_region on an image of w by h: cv2.resize
\* raises on an empty source.
_crop_to_hand_region(w, h, bbox) ==
    IF SliceLen(h, bbox[2], bbox[2] + bbox[4]) > 0
       /\ SliceLen(w, bbox[1], bbox[1] + bbox[3]) > 0
    THEN [raises |-> FALSE, width |-> 224, height |-> 224, black |-> FALSE]
    ELSE [raises |-> TRUE]

----------------------------------------------------------------------------
(* The temporary file that stages the cropped hand for the classifier *)

\* The file of one _classify_hand_sign call when the call is over. variant is
\* the detector, write what writing the image into the created file does,
\* outcome how the classification ends. The try ... finally that unlinks the
\* file starts only after the with block that creates and writes it.
temp_file_after(variant, write, outcome) ==
    LET created == TRUE
        entered_try == write = "ok"
        unlinked == entered_try
    IN  [exists |-> created /\ ~unlinked,
         ended |-> IF write = "raises"
                   THEN (IF variant = "fast" THEN "failure dict" ELSE "raises")
                   ELSE IF outcome = "normal" THEN "success dict"
                   ELSE "failure dict"]

----------------------------------------------------------------------------
(* AccurateSignDetector._classify_hand_sign *)

models ==
    <<[id |-> "bim-recognition-x7qsz/10", name |-> "BIM v10",
       color |-> "#00FFD1", priority |-> 1, boost |-> One]>>

min_sign_confidence == R(15, 100)

malaysian_signs ==
    {"SAYA", "AWAK", "DIA", "KAMI", "MEREKA",
     "TOLONG", "TERIMA KASIH", "MAAF", "SELAMAT",
     "YA", "TIDAK", "BOLEH", "TAK BOLEH",
     "APA", "SIAPA", "BILA", "DI MANA", "MENGAPA", "BAGAIMANA",
     "NAMA", "UMUR", "KERJA", "RUMAH", "SEKOLAH",
     "MAKAN", "MINUM", "TIDUR", "BANGUN",
     "PAGI", "TENGAH HARI", "PETANG", "MALAM",
     "HARI INI", "SEMALAM", "ESOK",
     "BAIK", "TIDAK BAIK", "CANTIK", "HODOH",
     "BESAR", "KECIL", "PANJANG", "PENDEK",
     "MERAH", "BIRU", "HIJAU", "KUNING", "HITAM", "PUTIH",
     "SATU", "DUA", "TIGA", "EMPAT", "LIMA",
     "SELAMAT PAGI", "SELAMAT PETANG", "SELAMAT MALAM",
     "APA KHABAR", "SIHAT", "SAKIT",
     "LAPAR", "KENYANG", "HAUS",
     "PANAS", "SEJUK", "HUJAN"}

false_positives ==
    {"HEAR", "EAR", "NOISE", "BACKGROUND", "NONE", "NULL",
     "IMPORTANT", "ENGLISH", "AMERICAN", "BRITISH", "GENERAL",
     "COMMON", "BASIC", "SIMPLE", "STANDARD", "DEFAULT"}

english_words ==
    {"THE", "AND", "OR", "BUT", "IF", "THEN", "WHEN", "WHERE",
     "WHAT", "WHO", "WHY", "HOW", "CAN", "WILL", "WOULD", "SHOULD",
     "MUST", "MAY", "MIGHT", "COULD", "DO", "DOES", "DID", "HAVE",
     "HAS", "HAD", "IS", "ARE", "WAS", "WERE", "BE", "BEEN", "BEING"}

\* p.get("confidence", 0) on a prediction of this classifier
ConfOf(p) == Get(p, "confidence", Zero)

\* max(predictions, key=confidence): the first prediction of highest confidence.
MaxByConf(predictions) ==
    predictions[CHOOSE i \in 1..Len(predictions) :
        /\ \A j \in 1..Len(predictions) :
               RLeq(ConfOf(predictions[j]), ConfOf(predictions[i]))
        /\ \A j \in 1..(i - 1) :
               RLt(ConfOf(predictions[j]), ConfOf(predictions[i]))]

NoBest == [prediction |-> None, confidence |-> Zero, model |-> None]

OnModelExceptionForget(best) == NoBest

\* except Exception: ... continue -- the best candidate so far is kept.
OnModelException(best) == best

\* One pass of the loop over self.models; responses[i] is what the classifier
\* did on the call for models[i].
try_model(model, response, best) ==
    IF response.raises THEN OnModelException(best)
    ELSE IF ~("predictions" \in DOMAIN response.body /\ response.body.predictions # <<>>)
    THEN best
    ELSE
    LET predictions == SelectSeq(response.body.predictions,
                                 LAMBDA p : RLeq(min_sign_confidence, ConfOf(p)))
    IN  IF predictions = <<>> THEN best
        ELSE LET model_best == MaxByConf(predictions)
                 confidence == ConfOf(model_best)
                 adjusted_confidence == RMul(confidence, Get(model, "boost", One))
             IN  IF RLt(best.confidence, adjusted_confidence)
                 THEN [prediction |-> model_best, confidence |-> confidence,
                       model |-> model]
                 ELSE best

\* The loop over a list ms of configured models, from its i-th model on.
RECURSIVE try_models_in(_, _, _, _)
try_models_in(ms, i, responses, best) ==
    IF i > Len(ms) THEN best
    ELSE try_models_in(ms, i + 1, responses, try_model(ms[i], responses[i], best))

\* for model in self.models
try_models(i, responses, best) == try_models_in(models, i, responses, best)

VocabularyBoostUncapped(best_confidence) == RMul(best_confidence, R(115, 100))

\* min(best_confidence * 1.15, 1.0)
VocabularyBoost(best_confidence) == RMin(RMul(best_confidence, R(115, 100)), One)

MismatchPenalty == R(8, 10)

IsFilteredNoiseOnly(label) == label \in false_positives

\* label in false_positives or label in english_words
IsFiltered(label) == label \in false_positives \/ label \in english_words

\* _classify_hand_sign(cropped_hand, hand_bbox, hand_label): the dict it
\* returns, the steps it ran and the number of classifier calls it made.
classify_hand_sign_run(hand_bbox, hand_label, responses) ==
    With(try_models(1, responses, NoBest), LAMBDA best :
    IF ~(Truthy(best.prediction) /\ Truthy(best.model))
    THEN [result |-> [success |-> FALSE,
                      message |-> "No confident predictions from any model"],
          steps |-> {"infer"}, calls |-> Len(models)]
    ELSE
    With(Upper(Strip(Get(best.prediction, "class", "unknown"))), LAMBDA label :
    IF IsFiltered(label)
    THEN [result |-> [success |-> FALSE,
                      message |-> <<"Filtered non-Malaysian sign: ", label>>],
          steps |-> {"infer", "normalize", "filter"}, calls |-> Len(models)]
    ELSE
    With(IF label \in malaysian_signs THEN VocabularyBoost(best.confidence)
         ELSE best.confidence, LAMBDA boosted :
    LET known == label \in malaysian_signs
        has_landmarks == Truthy(Get(hand_bbox, "landmarks", None))
        final_confidence ==
            IF has_landmarks
            THEN With(validate_prediction(hand_bbox.landmarks.coordinates,
                                          label, boosted),
                      LAMBDA validation :
                          IF validation.validated
                          THEN validation.confidence
                          ELSE RMul(boosted, MismatchPenalty))
            ELSE boosted
    IN  [result |-> [success |-> TRUE, label |-> label,
                     confidence |-> final_confidence,
                     model_name |-> best.model.name, color |-> best.model.color,
                     hand |-> hand_label, bbox |-> hand_bbox,
                     is_malaysian |-> known],
         steps |-> {"infer", "normalize", "filter"}
                   \cup (IF known THEN {"vocabulary_boost"} ELSE {})
                   \cup (IF has_landmarks THEN {"geometry_validator"} ELSE {}),
         calls |-> Len(models)])))

\* The dict _classify_hand_sign returns.
accurate_classify_hand_sign(hand_bbox, hand_label, responses) ==
    classify_hand_sign_run(hand_bbox, hand_label, responses).result

----------------------------------------------------------------------------
(* HandDetector.detect_hands and AccurateSignDetector.detect_signs *)

\* One detection of detect_hands: the bbox dict, and beside it (not inside
\* it) the landmarks in pixels.
hand_detection(hand, w, h) ==
    [hand_label |-> hand.handedness.category_name,
     confidence |-> hand.handedness.score,
     bbox |-> detect_hands_bbox(hand.hand_landmarks, w, h),
     landmarks |->
        [coordinates |->
            [i \in DOMAIN hand.hand_landmarks |->
                [x |-> R(hand.hand_landmarks[i].x * w, 1000),
                 y |-> R(hand.hand_landmarks[i].y * h, 1000),
                 z |-> R(hand.hand_landmarks[i].z * w, 1000),
                 visibility |-> Get(hand.hand_landmarks[i], "visibility", One)]]]]

\* detect_hands(image): one detection per hand the landmark model reports.
detect_hands(image) ==
    [i \in DOMAIN image.hands |-> hand_detection(image.hands[i], image.w, image.h)]

BestLast(sign_results) ==
    sign_results[CHOOSE i \in 1..Len(sign_results) :
        /\ \A j \in 1..Len(sign_results) :
               RLeq(ConfOf(sign_results[j]), ConfOf(sign_results[i]))
        /\ \A j \in (i + 1)..Len(sign_results) :
               RLt(ConfOf(sign_results[j]), ConfOf(sign_results[i]))]

\* max(sign_results, key=lambda x: x['confidence'])
Best(sign_results) == MaxByConf(sign_results)

\* The entry of all_bounding_boxes for a hand classified with sign_result.
sign_box(hand_detection_, sign_result) ==
    [x |-> hand_detection_.bbox.x, y |-> hand_detection_.bbox.y,
     width |-> hand_detection_.bbox.width, height |-> hand_detection_.bbox.height,
     class |-> sign_result.label, confidence |-> sign_result.confidence,
     color |-> Get(sign_result, "color", "#00FFD1"),
     hand |-> hand_detection_.hand_label,
     landmarks |-> Get(hand_detection_, "landmarks", [k \in {} |-> None])]

\* The entry of bounding_boxes for a hand when no hand was classified.
hand_box(h) ==
    [x |-> h.bbox.x, y |-> h.bbox.y,
     width |-> h.bbox.width, height |-> h.bbox.height,
     class |-> "Hand", confidence |-> h.confidence,
     color |-> IF h.hand_label = "Right" THEN "#00FF00" ELSE "#0000FF",
     hand |-> h.hand_label,
     landmarks |-> Get(h, "landmarks", [k \in {} |-> None])]

NoHandsNever(hand_detections) == FALSE

\* if not hand_detections
NoHands(hand_detections) == hand_detections = <<>>

\* The classifier calls made over the hands classified.
RECURSIVE CallsOf(_)
CallsOf(runs) == IF runs = <<>> THEN 0 ELSE Head(runs).calls + CallsOf(Tail(runs))

\* detect_signs(image_bytes): the dict returned and the steps run. image says
\* what decoding and the landmark model make of the bytes and, per hand, what
\* the classifier does on the calls for that hand.
detect_signs(image) ==
    IF ~image.decodable
    THEN [result |-> [success |-> FALSE, error |-> "Failed to decode image",
                      processing_time |-> image.elapsed],
          steps |-> {"decode"}, calls |-> 0]
    ELSE IF image.extractor = "raises"
    THEN [result |-> [success |-> FALSE, error |-> "landmark model raised",
                      processing_time |-> image.elapsed],
          steps |-> {"decode", "detect_hands"}, calls |-> 0]
    ELSE
    With(detect_hands(image), LAMBDA hand_detections :
    IF NoHands(hand_detections)
    THEN [result |-> [success |-> FALSE, message |-> "No hands detected",
                      hands |-> <<>>, processing_time |-> image.elapsed],
          steps |-> {"decode", "detect_hands"}, calls |-> 0]
    ELSE
    With([i \in DOMAIN hand_detections |->
             classify_hand_sign_run(hand_detections[i].bbox,
                                    hand_detections[i].hand_label,
                                    image.hands[i].responses)], LAMBDA runs :
    LET ok == {i \in DOMAIN runs : runs[i].result.success}
        sign_results == [k \in 1..Cardinality(ok) |->
                            runs[CHOOSE i \in ok :
                                Cardinality({j \in ok : j < i}) = k - 1].result]
        all_bounding_boxes ==
            [k \in 1..Cardinality(ok) |->
                LET i == CHOOSE i \in ok : Cardinality({j \in ok : j < i}) = k - 1
                IN  sign_box(hand_detections[i], runs[i].result)]
        steps == {"decode", "detect_hands", "crop_hand_region"}
                 \cup UNION {runs[i].steps : i \in DOMAIN runs}
    IN
    IF sign_results # <<>>
    THEN LET best_result == Best(sign_results)
         IN  [result |->
                [success |-> TRUE, label |-> best_result.label,
                 confidence |-> best_result.confidence,
                 model_used |-> best_result.model_name,
                 hand |-> best_result.hand,
                 bounding_boxes |-> all_bounding_boxes,
                 landmarks |-> Get(hand_detections[1], "landmarks", [k \in {} |-> None]),
                 all_detections |-> sign_results,
                 num_hands |-> Len(hand_detections),
                 processing_time |-> image.elapsed],
              steps |-> steps, calls |-> CallsOf(runs)]
    ELSE [result |->
            [success |-> FALSE,
             message |-> "Hands detected but no confident sign classification",
             hands |-> [i \in DOMAIN hand_detections |->
                           [hand |-> hand_detections[i].hand_label,
                            bbox |-> hand_detections[i].bbox]],
             bounding_boxes |-> [i \in DOMAIN hand_detections |->
                                    hand_box(hand_detections[i])],
             num_hands |-> Len(hand_detections),
             processing_time |-> image.elapsed],
          steps |-> steps, calls |-> CallsOf(runs)]))

NumHandsOrMinusOne(result) == Get(result, "num_hands", -1)

\* result.get('num_hands', 0)
NumHandsOrZero(result) == Get(result, "num_hands", 0)

\* What the endpoint detect_accurate answers for the dict detect_signs
\* returned (the sentence looked up for the label is left out).
detect_accurate_response(result) ==
    IF result.success
    THEN [success |-> TRUE, label |-> result.label,
          confidence |-> result.confidence, model_used |-> result.model_used,
          hand |-> result.hand, bounding_boxes |-> result.bounding_boxes,
          num_hands |-> result.num_hands,
          processing_time |-> result.processing_time,
          method |-> "MediaPipe + Roboflow"]
    ELSE [success |-> FALSE,
          message |-> Get(result, "message", "No confident detection"),
          bounding_boxes |-> Get(result, "bounding_boxes", <<>>),
          num_hands |-> NumHandsOrZero(result),
          processing_time |-> result.processing_time,
          method |-> "MediaPipe + Roboflow"]

----------------------------------------------------------------------------
(* The pure functions applied to inputs drawn in Init *)

\* 21 landmarks in pixel coordinates: the wrist, then four points per finger
\* (base, joint, mid, tip), fingers gap pixels apart; an extended finger is
\* straight, a bent one folds its tip back to the base. The first nvisible
\* landmarks are clearly visible, the others have visibility lowvis percent.
HandShape(fingers, gap, nvisible, lowvis) ==
    [i \in 1..21 |->
        LET k == i - 1
            f == IF k = 0 THEN 0 ELSE (k - 1) \div 4
            j == IF k = 0 THEN 0 ELSE (k - 1) % 4
            ext == k # 0 /\ fingers[f + 1] = 1
        IN  [x |-> IF k = 0 THEN 200 ELSE 100 + f * gap,
             y |-> IF k = 0 THEN 300
                   ELSE CASE j = 0 -> 200
                          [] j = 1 -> 170
                          [] j = 2 -> IF ext THEN 140 ELSE 160
                          [] j = 3 -> IF ext THEN 100 ELSE 190,
             z |-> 0,
             visibility |-> IF i <= nvisible THEN 90 ELSE lowvis]]

FingerPatterns ==
    {<<1, 1, 1, 1, 1>>, <<0, 0, 0, 0, 0>>, <<0, 1, 0, 0, 0>>,
     <<1, 0, 0, 0, 0>>, <<0, 1, 1, 0, 0>>, <<1, 1, 0, 0, 0>>}

Gaps == {20, 30, 40, 60, 70}

VisibleCounts == {0, 14, 15, 21}

ValidateLabels ==
    {"TOLONG", "tolong", "SAYA", " saya ", "TERIMA KASIH", "YA", "TIDAK",
     "HELLO", "MAKAN", "THE"}

Confidences == {R(0, 100), R(15, 100), R(50, 100), R(90, 100), R(100, 100)}

ValidateInputs ==
    {[kind |-> "validate", landmarks |-> HandShape(fp, gap, nv, 50),
      label |-> l, confidence |-> c] :
        fp \in FingerPatterns, gap \in Gaps, nv \in VisibleCounts,
        l \in ValidateLabels, c \in Confidences}

\* Normalised landmarks of a hand centred at (cx, cy), in thousandths of the
\* image side: a 5 by 5 grid of points spread thousandths apart (21 of them).
\* A hand partly or wholly past an image edge has coordinates below 0 or
\* above 1000.
NormalisedHand(cx, cy, spread) ==
    [i \in 1..21 |->
        [x |-> cx + (((i - 1) % 5) - 2) * spread,
         y |-> cy + (((i - 1) \div 5) - 2) * spread,
         z |-> 0]]

Centres == {-200, 50, 500, 950, 1200}

Spreads == {2, 50, 150}

ImageSizes == {[w |-> 100, h |-> 80], [w |-> 640, h |-> 480]}

BBoxInputs ==
    {[kind |-> "bbox", hand_landmarks |-> NormalisedHand(cx, cy, sp),
      w |-> sz.w, h |-> sz.h] :
        cx \in Centres, cy \in Centres, sp \in Spreads, sz \in ImageSizes}

\* hand_bbox as detect_signs passes it: the bbox dict alone.
PlainBBox == detect_hands_bbox(NormalisedHand(500, 500, 50), 640, 480)

\* hand_bbox of a caller that puts the landmarks inside the bbox dict.
BBoxWithLandmarks(landmarks) ==
    Upd(PlainBBox, "landmarks", [coordinates |-> landmarks])

HandBBoxes ==
    {PlainBBox}
    \cup {BBoxWithLandmarks(HandShape(fp, gap, nv, 50)) :
              fp \in FingerPatterns, gap \in {20, 70}, nv \in {14, 21}}

RawLabels ==
    {"tolong", " saya ", "SAYA", "TERIMA KASIH", "the", "Hello", "MAKAN", "YA",
     "NOISE"}

RawConfidences == {R(c, 100) : c \in {0, 10, 15, 50, 90, 100}}

\* What the classifier does on the one call per model: raises, returns no
\* predictions, or returns a weak prediction and one of a drawn class and
\* confidence.
ClassifyResponses ==
    {<<[raises |-> TRUE]>>,
     <<[raises |-> FALSE, body |-> [predictions |-> <<>>]]>>}
    \cup {<<[raises |-> FALSE, body |-> [predictions |->
               <<[class |-> "AWAK", confidence |-> R(12, 100)],
                 [class |-> l, confidence |-> c]>>]]>> :
              l \in RawLabels, c \in RawConfidences}

ClassifyInputs ==
    {[kind |-> "classify", hand_bbox |-> b, hand_label |-> "Right",
      responses |-> r] :
        b \in HandBBoxes, r \in ClassifyResponses}

\* What the classifier does on the fast variant's one call (confidences in
\* percent): the responses of the request model, and single predictions of a
\* drawn class and confidence.
HybridResponses ==
    Responses
    \cup {[raises |-> FALSE, body |-> [predictions |->
               <<[class |-> l, confidence |-> c]>>]] :
              l \in {"tolong", " saya ", "SAYA"}, c \in {5, 15, 90}}

HybridClassifyInputs ==
    {[kind |-> "hybrid_classify", response |-> r] : r \in HybridResponses}

\* What the classifier does on the call for one hand of an image.
HandResponses ==
    {[raises |-> TRUE],
     [raises |-> FALSE, body |-> [predictions |-> <<>>]]}
    \cup {[raises |-> FALSE, body |-> [predictions |->
               <<[class |-> p[1], confidence |-> R(p[2], 100)]>>]] :
              p \in {<<"SAYA", 50>>, <<"SAYA", 90>>, <<"tolong", 100>>,
                      <<"the", 90>>, <<"Hello", 60>>}}

\* The k-th hand of an image, as the landmark model reports it.
SignHand(k, response) ==
    [hand_landmarks |-> NormalisedHand(300 + 400 * (k - 1), 500, 50),
     handedness |-> [category_name |-> IF k = 1 THEN "Right" ELSE "Left",
                     score |-> R(95, 100)],
     responses |-> <<response>>]

HandLists ==
    {<<>>}
    \cup {<<SignHand(1, r)>> : r \in HandResponses}
    \cup {<<SignHand(1, r1), SignHand(2, r2)>> :
              r1 \in HandResponses, r2 \in HandResponses}

SignImage(decodable, extractor, hands) ==
    [decodable |-> decodable, extractor |-> extractor, hands |-> hands,
     w |-> 640, h |-> 480, elapsed |-> 2]

DetectSignsInputs ==
    {[kind |-> "detect_signs", image |-> i] :
        i \in {SignImage(FALSE, "ok", <<>>), SignImage(TRUE, "raises", <<>>)}
               \cup {SignImage(TRUE, "ok", hs) : hs \in HandLists}}

\* Boost multipliers a configured model may carry.
Boosts == {R(1, 2), One, R(3, 2)}

\* The k-th model of a configured list.
EnsembleModel(k, boost) ==
    [id |-> <<"model", k>>, name |-> <<"Model", k>>, color |-> "#00FFD1",
     priority |-> k, boost |-> boost]

\* What the classifier does on the call for one model.
EnsembleResponses ==
    {[raises |-> TRUE],
     [raises |-> FALSE, body |-> [predictions |-> <<>>]]}
    \cup {[raises |-> FALSE, body |-> [predictions |->
               <<[class |-> "SAYA", confidence |-> R(c, 100)]>>]] :
              c \in {10, 60, 70, 90}}

EnsembleInputs ==
    {[kind |-> "ensemble",
      models |-> <<EnsembleModel(1, b1), EnsembleModel(2, b2)>>,
      responses |-> <<r1, r2>>] :
        b1 \in Boosts, b2 \in Boosts,
        r1 \in EnsembleResponses, r2 \in EnsembleResponses}

TempFileInputs ==
    {[kind |-> "temp_file", variant |-> v, write |-> w, outcome |-> o] :
        v \in {"accurate", "fast"}, w \in {"ok", "raises"},
        o \in {"normal", "filtered", "no_predictions", "classifier_raises"}}

\* Requests of the fast variant to a detector that has served none yet.
FastInputs ==
    {[kind |-> "fast", image |-> i, response |-> r] :
        i \in HandlessImages \cup HandImages, r \in Responses}

InitPure ==
    /\ op = "init"
    /\ ret = None
    /\ arg \in ValidateInputs \cup BBoxInputs \cup ClassifyInputs
               \cup HybridClassifyInputs \cup DetectSignsInputs
               \cup EnsembleInputs \cup FastInputs \cup TempFileInputs
    /\ now = 0
    /\ detection_cache = <<>>
    /\ last_detection_time = 0
    /\ lookup = NoLookup
    /\ pruned = <<>>
    /\ survivors = <<>>
    /\ stages = {}
    /\ last_call = NoCall
    /\ put_log = NoPuts
    /\ nops = 0
    /\ reqs = NoReqs
    /\ demo = NoDemo

\* One application: the function's name, what it returned, the steps it ran.
Apply(name, value, ran) ==
    /\ op = "init"
    /\ op' = name
    /\ ret' = value
    /\ stages' = ran
    /\ nops' = nops + 1
    /\ UNCHANGED <<now, detection_cache, last_detection_time, arg, lookup,
                   pruned, survivors, last_call, put_log, reqs,
                   demo>>

ValidatePrediction ==
    /\ arg.kind = "validate"
    /\ Apply("validate_prediction",
             validate_prediction(arg.landmarks, arg.label, arg.confidence), {})

DetectHands ==
    /\ arg.kind = "bbox"
    /\ Apply("detect_hands",
             detect_hands_bbox(arg.hand_landmarks, arg.w, arg.h), {})

DetectHandRegion ==
    /\ arg.kind = "bbox"
    /\ Apply("_detect_hand_region",
             _detect_hand_region(arg.hand_landmarks, arg.w, arg.h), {})

ClassifyHandSign ==
    /\ arg.kind = "classify"
    /\ LET run == classify_hand_sign_run(arg.hand_bbox, arg.hand_label,
                                         arg.responses)
       IN  Apply("_classify_hand_sign", run.result, run.steps)

HybridClassifyHandSign ==
    /\ arg.kind = "hybrid_classify"
    /\ Apply("hybrid_classify_hand_sign",
             hybrid_classify_hand_sign(arg.response), {"infer"})

DetectSigns ==
    /\ arg.kind = "detect_signs"
    /\ LET run == detect_signs(arg.image)
       IN  Apply("detect_signs", run.result, run.steps)

DetectAccurate ==
    /\ arg.kind = "detect_signs"
    /\ LET run == detect_signs(arg.image)
       IN  Apply("detect_accurate", detect_accurate_response(run.result), run.steps)

TryModels ==
    /\ arg.kind = "ensemble"
    /\ Apply("try_models", try_models_in(arg.models, 1, arg.responses, NoBest),
             {"infer"})

\* The first request a fast detector serves.
FirstDetectSignFast ==
    /\ arg.kind = "fast"
    /\ LET d == detect_sign_fast(<<>>, 0, StartTime, arg.image, arg.response, 0, 1)
       IN  Apply("detect_sign_fast", d.ret, d.stages)

CropHandRegion ==
    /\ arg.kind = "bbox"
    /\ Apply("crop_hand_region",
             crop_hand_region(arg.w, arg.h,
                              detect_hands_bbox(arg.hand_landmarks, arg.w, arg.h)),
             {})

CropToHandRegion ==
    /\ arg.kind = "bbox"
    /\ Apply("_crop_to_hand_region",
             _crop_to_hand_region(arg.w, arg.h,
                                  _detect_hand_region(arg.hand_landmarks, arg.w, arg.h)),
             {})

StageTempFile ==
    /\ arg.kind = "temp_file"
    /\ Apply("temp_file", temp_file_after(arg.variant, arg.write, arg.outcome), {})

NextPure ==
    \/ CropHandRegion
    \/ CropToHandRegion
    \/ StageTempFile
    \/ FirstDetectSignFast
    \/ TryModels
    \/ DetectSigns
    \/ DetectAccurate
    \/ HybridClassifyHandSign
    \/ ValidatePrediction
    \/ DetectHands
    \/ DetectHandRegion
    \/ ClassifyHandSign

SpecPure == InitPure /\ [][NextPure]_vars

----------------------------------------------------------------------------
(* C2: after any sequence of insertions (re-insertion of a present key
   included), lookups and clear_cache calls, the detection cache holds at
   most max_cache_size entries. *)
C2_CacheBounded == Len(detection_cache) <= max_cache_size

\* An insertion found the cache at capacity, pruned it, and its key was one
\* of the keys still present.
C2_Witness ==
    /\ op = "_cache_result"
    /\ pruned # <<>>
    /\ HasKey(survivors, arg.key)

(* C3: when an insertion prunes for capacity it removes one batch of
   prune_batch entries, and none of them has a timestamp newer than the
   timestamp of an entry that survives the pruning. *)
C3_PruneOldest ==
    (op = "_cache_result" /\ pruned # <<>>) =>
        /\ Len(pruned) = prune_batch
        /\ \A i \in 1..Len(pruned), j \in 1..Len(survivors) :
               pruned[i].timestamp <= survivors[j].timestamp

\* A pruning of a cache whose dict order was not its timestamp order: an
\* entry put again sits before an older one among the survivors.
C3_Witness ==
    /\ op = "_cache_result"
    /\ pruned # <<>>
    /\ \E j \in 1..(Len(survivors) - 1) :
           survivors[j].timestamp > survivors[j + 1].timestamp

(* C1: a put followed by a get of the same key less than cache_ttl later,
   the key neither pruned for capacity nor cleared in between, returns a
   result equal to the one put; a get once cache_ttl has elapsed returns a
   miss. put_log holds, per key, the result handed to the last
   _cache_result and its time, and drops a key that is pruned or cleared. *)
C1_RoundTrip ==
    [][(/\ op' = "detect_sign_fast"
        /\ "lookup" \in stages'
        /\ lookup'.key \in DOMAIN put_log)
       => IF lookup'.at - put_log[lookup'.key].time < cache_ttl
          THEN lookup'.result = put_log[lookup'.key].result
          ELSE lookup'.result = None]_vars

\* A request whose lookup found, unexpired, an entry that an earlier hit
\* had already been served from.
C1_Witness ==
    /\ op = "detect_sign_fast"
    /\ lookup.result # None
    /\ "from_cache" \in DOMAIN lookup.result

(* C4: in detect_sign_fast, when the lookup of the cropped-image hash finds
   an unexpired entry, the classifier is not called and the result is
   flagged from_cache = TRUE; a result that came from a classifier call is
   flagged from_cache = FALSE. *)
C4_HitBypassesClassifier ==
    [][op' = "detect_sign_fast" =>
        /\ (/\ "lookup" \in stages'
            /\ \E i \in 1..Len(detection_cache) :
                   /\ detection_cache[i].key = lookup'.key
                   /\ lookup'.at - detection_cache[i].timestamp < cache_ttl)
           => /\ "classify" \notin stages'
              /\ last_call' = last_call
              /\ Get(ret', "from_cache", FALSE) = TRUE
        /\ "classify" \in stages' => Get(ret', "from_cache", TRUE) = FALSE]_vars

\* A request served from the cache.
C4_Witness ==
    /\ op = "detect_sign_fast"
    /\ "lookup" \in stages
    /\ "classify" \notin stages
    /\ Get(ret, "from_cache", FALSE) = TRUE

\* A request of the fast variant whose classification failed.
FailedClassification ==
    /\ op' = "detect_sign_fast"
    /\ "classify" \in stages'
    /\ ~ret'.success

EntriesSucceeded ==
    \A i \in 1..Len(detection_cache) :
        Get(detection_cache[i].result, "success", FALSE) = TRUE

(* C5 as stated: every cache entry holds a result whose success flag is
   true, and a request whose classification fails leaves the cache contents
   unchanged. *)
C5_FailureLeavesCache ==
    /\ []EntriesSucceeded
    /\ [][FailedClassification => detection_cache' = detection_cache]_vars

(* C5 as amended: every cache entry holds a result whose success flag is
   true, and a request whose classification fails adds no entry and changes
   none: the cache afterwards is the cache before, less the entry of the
   request's own hash if that entry had expired. *)
C5_WritesOnSuccessOnly ==
    /\ []EntriesSucceeded
    /\ [][FailedClassification =>
            detection_cache' = SelectSeq(detection_cache, LAMBDA e :
                ~(e.key = lookup'.key /\ lookup'.at - e.timestamp >= cache_ttl))]_vars

\* A failed classification for a hash whose expired entry the lookup dropped.
C5_Witness ==
    /\ op = "detect_sign_fast"
    /\ "classify" \in stages
    /\ ~ret.success
    /\ lookup.key \in DOMAIN put_log
    /\ ~HasKey(detection_cache, lookup.key)

(* C6: for requests run one after another, a classifier call is issued no
   sooner than min_detection_interval after the previous classifier call
   completed, and a request arriving sooner returns the "Rate limited"
   failure without hand extraction, cache lookup or classification. *)
C6_RateLimit ==
    [][(op' = "detect_sign_fast" /\ last_call # NoCall) =>
        /\ "classify" \in stages'
           => last_call'.issued - last_call.done >= min_detection_interval
        /\ arg'.arrived - last_call.done < min_detection_interval
           => /\ ret' = [success |-> FALSE, error |-> "Rate limited",
                         processing_time |-> 0]
              /\ stages' = {}
              /\ detection_cache' = detection_cache
              /\ last_call' = last_call]_vars

\* A request that arrived within the interval and was turned away.
C6_Witness ==
    /\ op = "detect_sign_fast"
    /\ last_call # NoCall
    /\ arg.arrived - last_call.done < min_detection_interval
    /\ Get(ret, "error", "") = "Rate limited"

(* C9: for a predicted label that has no entry in the rule table (the table
   is looked up by the upper-cased label), whatever the landmarks, low
   visibility included, and whatever the input confidence,
   validate_prediction returns validated = TRUE, geometry_score = 1.0 and
   the input confidence unchanged. *)
C9_NoRuleUpperPassThrough ==
    (op = "validate_prediction" /\ Upper(arg.label) \notin DOMAIN sign_rules) =>
        /\ ret.validated
        /\ ret.geometry_score = One
        /\ ret.confidence = arg.confidence

\* A label without a rule validated on low-visibility landmarks.
C9_Witness ==
    /\ op = "validate_prediction"
    /\ Upper(arg.label) \notin DOMAIN sign_rules
    /\ visible_count(arg.landmarks) < 15
    /\ arg.confidence = R(9, 10)
    /\ ret.confidence = R(9, 10)

(* C10 as stated: whenever fewer than 15 of the 21 landmarks have visibility
   above 0.5, validate_prediction returns validated = TRUE with the input
   confidence multiplied by 0.9, for every predicted label, and the rule
   table is not consulted. *)
C10_LowVisibilityAlways ==
    (op = "validate_prediction" /\ visible_count(arg.landmarks) < 15) =>
        /\ ret.validated
        /\ ret.confidence = RMul(arg.confidence, R(9, 10))
        /\ ret.steps = <<"features">>

(* C10 as amended: whenever fewer than 15 of the 21 landmarks have
   visibility above 0.5 and the upper-cased label has a rule, the features
   are flagged insufficient_visibility and validate_prediction returns
   validated = TRUE, geometry_score 0.9 and the input confidence multiplied
   by 0.9, after the membership test on the rule table and without fetching
   or scoring the rule. *)
C10_LowVisibilityWithRule ==
    (/\ op = "validate_prediction"
     /\ visible_count(arg.landmarks) < 15
     /\ Upper(arg.label) \in DOMAIN sign_rules) =>
        /\ _calculate_features(arg.landmarks) = [insufficient_visibility |-> TRUE]
        /\ ret.validated
        /\ ret.geometry_score = R(9, 10)
        /\ ret.confidence = RMul(arg.confidence, R(9, 10))
        /\ ret.steps = <<"rule_membership", "features">>
        /\ "features" \notin DOMAIN ret

\* A label with a rule, 14 visible landmarks, a hand that does not match the
\* rule, and a confidence the discount changes.
C10_Witness ==
    /\ op = "validate_prediction"
    /\ visible_count(arg.landmarks) = 14
    /\ arg.label = "TOLONG"
    /\ _get_finger_extension(arg.landmarks) = <<0, 0, 0, 0, 0>>
    /\ arg.confidence = R(1, 2)
    /\ ret.confidence = R(9, 20)

(* C7 as stated: every bounding box built from the landmarks of a hand in an
   image of width W and height H satisfies, after padding and clamping,
   0 <= x_min < x_max <= W and 0 <= y_min < y_max <= H. *)
C7_BBoxWithinImage ==
    /\ op = "detect_hands" =>
          /\ 0 <= ret.x_min /\ ret.x_min < ret.x_max /\ ret.x_max <= arg.w
          /\ 0 <= ret.y_min /\ ret.y_min < ret.y_max /\ ret.y_max <= arg.h
    /\ op = "_detect_hand_region" =>
          /\ 0 <= ret[1] /\ ret[3] > 0 /\ ret[1] + ret[3] <= arg.w
          /\ 0 <= ret[2] /\ ret[4] > 0 /\ ret[2] + ret[4] <= arg.h

(* C8: with raw classifier confidences in [0,1], the confidence of every
   successful classification and the geometry_score and adjusted confidence
   of every validation result lie in [0,1], after model boost, vocabulary
   boost, geometry adjustment, low-visibility discount and mismatch
   penalty. *)
C8_ConfidenceInUnit ==
    /\ op = "validate_prediction" =>
          InUnit(ret.confidence) /\ InUnit(ret.geometry_score)
    /\ (op = "_classify_hand_sign" /\ ret.success) => InUnit(ret.confidence)

\* A vocabulary sign of raw confidence 0.9, which the boost would carry past
\* 1.0, classified with landmarks that pass validation at score 1.
C8_Witness ==
    /\ op = "_classify_hand_sign"
    /\ ret.success
    /\ ret.is_malaysian
    /\ \E i \in 1..2 :
          arg.responses[1].body.predictions[i].confidence = R(9, 10)
    /\ ret.confidence = One

(* C11 as stated: for every rule of the table, finger-only rules included,
   and every feature vector, the match score is the average of the fraction
   of the 5 finger bits that match and an openness score that is 1.0 when
   the openness is within the rule's bounds and a ratio penalty otherwise;
   validated is true exactly when the score is above 0.5. *)
C11_AverageOfBoth ==
    (op = "validate_prediction" /\ "features" \in DOMAIN ret) =>
        LET rule == sign_rules[Upper(arg.label)]
            o == ret.features.hand_openness
            bits == Cardinality({f \in 1..5 :
                        rule.fingers_extended[f] = ret.features.fingers_extended[f]})
            openness ==
                IF "hand_openness_min" \in DOMAIN rule /\ RLt(o, rule.hand_openness_min)
                THEN RDiv(o, rule.hand_openness_min)
                ELSE IF "hand_openness_max" \in DOMAIN rule
                        /\ RLt(rule.hand_openness_max, o)
                THEN RDiv(rule.hand_openness_max, o)
                ELSE One
        IN  /\ ret.geometry_score = RMul(RAdd(R(bits, 5), openness), R(1, 2))
            /\ ret.validated <=> RLt(R(1, 2), ret.geometry_score)

(* C11 as amended: for a rule that gives an openness bound the match score
   is the average of the finger fraction and the openness score (1.0 within
   the bound, the ratio penalty outside it); for a rule that gives only a
   finger pattern the match score is the finger fraction alone; validated
   is true exactly when the score is above 0.5, and a full match gives
   geometry_score = 1.0 and validated = TRUE. *)
C11_MeanOfRuleScores ==
    (op = "validate_prediction" /\ "features" \in DOMAIN ret) =>
        LET rule == sign_rules[Upper(arg.label)]
            o == ret.features.hand_openness
            bits == Cardinality({f \in 1..5 :
                        rule.fingers_extended[f] = ret.features.fingers_extended[f]})
            bounded == DOMAIN rule \cap {"hand_openness_min", "hand_openness_max"} # {}
            openness ==
                IF "hand_openness_min" \in DOMAIN rule /\ RLt(o, rule.hand_openness_min)
                THEN RDiv(o, rule.hand_openness_min)
                ELSE IF "hand_openness_max" \in DOMAIN rule
                        /\ RLt(rule.hand_openness_max, o)
                THEN RDiv(rule.hand_openness_max, o)
                ELSE One
            score == IF bounded
                     THEN RMul(RAdd(R(bits, 5), openness), R(1, 2))
                     ELSE R(bits, 5)
        IN  /\ ret.geometry_score = score
            /\ ret.validated <=> RLt(R(1, 2), score)
            /\ (bits = 5 /\ openness = One) =>
                   ret.geometry_score = One /\ ret.validated

\* An open palm of openness 0.7 validated as TOLONG at score 1.0.
C11_Witness ==
    /\ op = "validate_prediction"
    /\ arg.label = "TOLONG"
    /\ "features" \in DOMAIN ret
    /\ ret.features.fingers_extended = <<1, 1, 1, 1, 1>>
    /\ ret.features.hand_openness = R(7, 10)
    /\ ret.geometry_score = One
    /\ ret.validated

(* C12: whenever the top prediction's normalised label is in the deny-list
   of noise tokens or in the list of English stop-words, per-hand
   classification returns success = FALSE with a message naming that label,
   and neither the vocabulary boost nor the geometry validator is run. *)
C12_FilteredRejected ==
    (/\ op = "_classify_hand_sign"
     /\ ~arg.responses[1].raises
     /\ arg.responses[1].body.predictions # <<>>
     /\ LET top == arg.responses[1].body.predictions[2]
        IN  /\ RLeq(R(15, 100), top.confidence)
            /\ Upper(Strip(top.class)) \in false_positives \cup english_words)
    => LET label == Upper(Strip(arg.responses[1].body.predictions[2].class))
       IN  /\ ret.success = FALSE
           /\ ret.message = <<"Filtered non-Malaysian sign: ", label>>
           /\ stages \cap {"vocabulary_boost", "geometry_validator"} = {}

\* "the" at confidence 0.9 on a hand that carries landmarks: rejected as THE.
C12_Witness ==
    /\ op = "_classify_hand_sign"
    /\ "landmarks" \in DOMAIN arg.hand_bbox
    /\ ~arg.responses[1].raises
    /\ arg.responses[1].body.predictions # <<>>
    /\ arg.responses[1].body.predictions[2] = [class |-> "the", confidence |-> R(9, 10)]
    /\ ret.success = FALSE
    /\ ret.message = <<"Filtered non-Malaysian sign: ", "THE">>

(* C13 as stated: the label of every successful classification result, of
   the accurate variant and of the fast variant, is a trimmed, upper-case
   string. *)
C13_LabelsNormalised ==
    (op \in {"_classify_hand_sign", "hybrid_classify_hand_sign"} /\ ret.success) =>
        Strip(ret.label) = ret.label /\ Upper(ret.label) = ret.label

(* C20 as stated: in every variant a successful classification result is
   based on a prediction whose raw confidence is at least the minimum sign
   confidence 0.15. *)
C20_ThresholdEverywhere ==
    /\ (op = "_classify_hand_sign" /\ ret.success) =>
           \E i \in DOMAIN arg.responses[1].body.predictions :
               LET p == arg.responses[1].body.predictions[i]
               IN  Upper(Strip(p.class)) = ret.label
                   /\ RLeq(R(15, 100), p.confidence)
    /\ (op = "hybrid_classify_hand_sign" /\ ret.success) => ret.confidence >= 15

(* C14 as stated: every request returns a dict that carries a boolean
   success flag and a processing_time, whatever the decoder, the landmark
   extractor and the classifier did. *)
C14_WellFormedResult ==
    op = "detect_sign_fast" =>
        /\ "success" \in DOMAIN ret /\ ret.success \in BOOLEAN
        /\ "processing_time" \in DOMAIN ret

(* C15: for every valid image in which the landmark model finds no hand,
   detect_hands returns the empty sequence and the answer of the accurate
   endpoint has success = FALSE and num_hands = 0, no classification call
   having been made. *)
C15_NoHands ==
    (/\ op = "detect_accurate"
     /\ arg.image.decodable
     /\ arg.image.extractor = "ok"
     /\ arg.image.hands = <<>>)
    => /\ detect_hands(arg.image) = <<>>
       /\ ret.success = FALSE
       /\ ret.num_hands = 0
       /\ "infer" \notin stages

\* A decodable image without hands, answered with "No hands detected".
C15_Witness ==
    /\ op = "detect_accurate"
    /\ arg.image.decodable
    /\ arg.image.extractor = "ok"
    /\ arg.image.hands = <<>>
    /\ ret.message = "No hands detected"
    /\ ret.num_hands = 0

(* C16 as stated: whenever at least one hand is detected, bounding_boxes
   has one entry per detected hand, its length equal to num_hands, whatever
   the outcome of classification. *)
C16_BoxPerHand ==
    (op = "detect_signs" /\ "num_hands" \in DOMAIN ret) =>
        /\ ret.num_hands = Len(arg.image.hands)
        /\ Len(ret.bounding_boxes) = ret.num_hands

(* C17: the overall result of detect_signs is the per-hand result of
   highest final confidence among the hands classified successfully, and
   among results of equal confidence the first in hand order. *)
C17_BestIsFirstMax ==
    (op = "detect_signs" /\ ret.success) =>
        \E k \in DOMAIN ret.all_detections :
            /\ ret.hand = ret.all_detections[k].hand
            /\ ret.label = ret.all_detections[k].label
            /\ ret.confidence = ret.all_detections[k].confidence
            /\ \A j \in DOMAIN ret.all_detections :
                   RLeq(ret.all_detections[j].confidence, ret.confidence)
            /\ \A j \in 1..(k - 1) :
                   RLt(ret.all_detections[j].confidence, ret.confidence)

\* Two hands classified at the same final confidence with different labels:
\* the first hand's result is the overall one.
C17_Witness ==
    /\ op = "detect_signs"
    /\ ret.success
    /\ Len(ret.all_detections) = 2
    /\ ret.all_detections[1].confidence = ret.all_detections[2].confidence
    /\ ret.all_detections[1].label # ret.all_detections[2].label
    /\ ret.hand = "Right"
    /\ ret.label = ret.all_detections[1].label

(* C19 as stated: in detect_signs, for every detected hand whose candidate
   survives filtering, the geometry validator is invoked with the hand's
   landmarks. *)
C19_ValidatorInvoked ==
    (op = "detect_signs" /\ ret.success) => "geometry_validator" \in stages

\* The section of detect_sign_fast between the read of last_detection_time
\* and the writes of the cache and of last_detection_time.
InSection(r) == reqs.pc[r] \in {"entered", "checked", "calling"}

\* C18 as stated: the read-check-write sequences of concurrent requests are
\* mutually exclusive, no two requests both pass the rate-limit check inside
\* one minimum interval, and no two requests both miss the cache for the same
\* hash and both call the classifier.
C18_NoTwoPasses ==
    /\ \A r1 \in DOMAIN reqs.pc, r2 \in DOMAIN reqs.pc :
           r1 # r2 => ~(InSection(r1) /\ InSection(r2))
    /\ \A i \in 1..Len(reqs.passes), j \in 1..Len(reqs.passes) :
           i < j => reqs.passes[j].at - reqs.passes[i].at >= min_detection_interval
    /\ \A i \in 1..Len(reqs.calls), j \in 1..Len(reqs.calls) :
           i < j => reqs.calls[i].key # reqs.calls[j].key

\* C18, amended: the read-check-write sequences of concurrent requests are
\* mutually exclusive; no classifier call is issued while another is in
\* flight or less than the minimum interval after another completed; and no
\* classifier call is issued for a hash within the TTL of a successful call
\* for the same hash.
C18_Serialised ==
    /\ \A r1 \in DOMAIN reqs.pc, r2 \in DOMAIN reqs.pc :
           r1 # r2 => ~(InSection(r1) /\ InSection(r2))
    /\ \A i \in 1..Len(reqs.calls), j \in 1..Len(reqs.calls) :
           i < j => /\ reqs.calls[i].done # -1
                    /\ reqs.calls[j].issued - reqs.calls[i].done
                           >= min_detection_interval
    /\ \A i \in 1..Len(reqs.calls), j \in 1..Len(reqs.calls) :
           (i < j /\ reqs.calls[i].key = reqs.calls[j].key /\ reqs.calls[i].success)
               => reqs.calls[j].issued - reqs.calls[i].done >= cache_ttl

\* Two requests with the same hash in flight together: one has called the
\* classifier and awaits its interpretation, the other has since been
\* answered from the cache and awaits its own.
C18_Witness ==
    \E r1 \in DOMAIN reqs.pc, r2 \in DOMAIN reqs.pc :
        /\ r1 # r2
        /\ reqs.key[r1] = reqs.key[r2]
        /\ reqs.pc[r1] = "interpreting"
        /\ reqs.served[r1] = "classifier"
        /\ reqs.pc[r2] = "interpreting"
        /\ reqs.served[r2] = "cache"

\* The model answered with at least one prediction at or above the threshold.
HasCandidate(response) ==
    /\ ~response.raises
    /\ "predictions" \in DOMAIN response.body
    /\ \E i \in DOMAIN response.body.predictions :
           RLeq(min_sign_confidence, ConfOf(response.body.predictions[i]))

\* The confidence of the model's best prediction times the model's boost.
Adjusted(model, response) ==
    RMul(ConfOf(MaxByConf(SelectSeq(response.body.predictions,
             LAMBDA p : RLeq(min_sign_confidence, ConfOf(p))))),
         Get(model, "boost", One))

(* C21 as stated: for any list of models and any boosts, the candidate kept
   by the loop over the models is one whose confidence times its model's
   boost is the highest across all the models that produced a candidate. *)
C21_KeepsHighestAdjusted ==
    op = "try_models" =>
        \A i \in DOMAIN arg.models :
            HasCandidate(arg.responses[i]) =>
                /\ Truthy(ret.model)
                /\ RLeq(Adjusted(arg.models[i], arg.responses[i]),
                        RMul(ret.confidence, Get(ret.model, "boost", One)))

\* The responses with every exception replaced by an answer without predictions.
Quiet(responses) ==
    [i \in DOMAIN responses |->
        IF responses[i].raises
        THEN [raises |-> FALSE, body |-> [predictions |-> <<>>]]
        ELSE responses[i]]

(* C22: an exception raised by the call to one model leaves the loop over
   the models with the candidate it would keep had that model answered
   without predictions; a hand all of whose models raise is reported with
   success = FALSE; and detect_signs then still answers for the request,
   successfully exactly when some hand was classified. *)
C22_ExceptionSkipsModel ==
    /\ op = "try_models" =>
           ret = try_models_in(arg.models, 1, Quiet(arg.responses), NoBest)
    /\ (op = "_classify_hand_sign"
            /\ \A i \in DOMAIN arg.responses : arg.responses[i].raises) =>
           /\ ret.success = FALSE
           /\ ret.message = "No confident predictions from any model"
    /\ (op = "detect_signs" /\ arg.image.decodable
            /\ arg.image.extractor = "ok" /\ arg.image.hands # <<>>) =>
           /\ "error" \notin DOMAIN ret
           /\ ret.num_hands = Len(arg.image.hands)
           /\ ret.success =
                  (\E i \in DOMAIN arg.image.hands :
                      accurate_classify_hand_sign(
                          detect_hands(arg.image)[i].bbox,
                          detect_hands(arg.image)[i].hand_label,
                          arg.image.hands[i].responses).success)

\* The second model raised and the first model's candidate was kept.
C22_Witness ==
    /\ op = "try_models"
    /\ HasCandidate(arg.responses[1])
    /\ arg.responses[2].raises
    /\ ret.model = arg.models[1]

(* C23 as stated: in both variants, when the landmark model raises during
   hand extraction the request gets the outcome of an image with zero hands,
   and the classifier is not called. *)
C23_ExtractorFailureIsNoHands ==
    /\ (op = "detect_signs" /\ arg.image.decodable
            /\ arg.image.extractor = "raises") =>
           /\ ret = detect_signs([arg.image EXCEPT !.extractor = "ok",
                                                   !.hands = <<>>]).result
           /\ "infer" \notin stages
    /\ (op = "detect_sign_fast" /\ arg.image.decodable
            /\ arg.image.hand = "raises") =>
           /\ ret = detect_sign_fast(<<>>, 0, StartTime,
                                     [arg.image EXCEPT !.hand = "none"],
                                     arg.response, 0, 1).ret
           /\ "classify" \notin stages

\* Every stage that ran was preceded by the stages before it in order.
InOrder(order, ran) ==
    \A k \in DOMAIN order :
        order[k] \in ran => \A j \in 1..(k - 1) : order[j] \in ran

(* C24: every request runs its stages in the order decode, hand extraction,
   per-hand classification and ends with a result; the classifier is called
   only after a successful decode and the detection of at least one hand,
   at most once per detected hand and configured model; a decode failure
   ends the request after decoding and a no-hands outcome after hand
   extraction. *)
C24_StagesInOrder ==
    /\ op = "detect_signs" =>
           /\ InOrder(<<"decode", "detect_hands", "crop_hand_region", "infer",
                        "normalize", "filter">>, stages)
           /\ "success" \in DOMAIN ret
           /\ (detect_signs(arg.image).calls > 0) = ("infer" \in stages)
           /\ detect_signs(arg.image).calls
                  <= Len(arg.image.hands) * Len(models)
           /\ "infer" \in stages =>
                  /\ arg.image.decodable
                  /\ arg.image.extractor = "ok"
                  /\ arg.image.hands # <<>>
           /\ ~arg.image.decodable => stages = {"decode"}
           /\ (arg.image.decodable
                  /\ (arg.image.extractor = "raises" \/ arg.image.hands = <<>>))
                  => stages = {"decode", "detect_hands"}
    /\ op = "detect_sign_fast" =>
           /\ InOrder(<<"decode", "extract", "crop", "lookup", "classify">>,
                      stages)
           /\ "success" \in DOMAIN ret
           /\ "classify" \in stages =>
                  (arg.image.decodable /\ arg.image.hand = "ok")
           /\ ~arg.image.decodable => stages = {"decode"}
           /\ (arg.image.decodable /\ arg.image.hand \in {"none", "raises"})
                  => stages = {"decode", "extract"}

\* Two hands detected, both classified, and a successful result.
C24_Witness ==
    /\ op = "detect_signs"
    /\ Len(arg.image.hands) = 2
    /\ detect_signs(arg.image).calls = 2 * Len(models)
    /\ ret.success

(* C25 as stated: the temporary file created to stage a cropped image is
   deleted before the classification call is over, on every exit path:
   normal return, filtered label, no predictions, an exception raised by the
   classifier, an exception raised while the image is written to the file. *)
C25_TempFileDeleted ==
    op = "temp_file" => ~ret.exists

(* C26 as stated: in both variants cropping never fails and gives an image
   of the variant's size, 320 x 320 accurate and 224 x 224 fast, which is a
   black placeholder when the crop region has zero area. *)
C26_DegenerateCropIsPlaceholder ==
    /\ op = "crop_hand_region" =>
           /\ ~ret.raises /\ ret.width = 320 /\ ret.height = 320
           /\ ret.black =
                  (SliceLen(arg.w, detect_hands_bbox(arg.hand_landmarks, arg.w, arg.h).x_min,
                            detect_hands_bbox(arg.hand_landmarks, arg.w, arg.h).x_max) = 0
                   \/ SliceLen(arg.h, detect_hands_bbox(arg.hand_landmarks, arg.w, arg.h).y_min,
                               detect_hands_bbox(arg.hand_landmarks, arg.w, arg.h).y_max) = 0)
    /\ op = "_crop_to_hand_region" =>
           /\ ~ret.raises /\ ret.width = 224 /\ ret.height = 224

(* C27 as stated: in the fast variant, a request for an image whose
   cropped-region hash has a cache entry that stays unexpired through the
   request is answered with that entry's result, flagged from_cache = TRUE,
   however soon after the previous classification it arrives. *)
C27_ResubmitServedFromCache ==
    [][\A i \in 1..Len(detection_cache) :
          (/\ op' = "detect_sign_fast"
           /\ arg'.image.decodable
           /\ arg'.image.hand = "ok"
           /\ detection_cache[i].key = arg'.image.hash
           /\ now' - detection_cache[i].timestamp < cache_ttl)
          => /\ Get(ret', "from_cache", FALSE) = TRUE
             /\ Get(ret', "label", None) = detection_cache[i].result.label]_vars

(* C29 as stated: a cache hit leaves the stored entry unchanged: the result
   held for a key equals the result written at its insertion, and a request
   served from the cache leaves the cache as it was. *)
C29_HitLeavesEntry ==
    /\ [](\A i \in 1..Len(detection_cache) :
              detection_cache[i].key \in DOMAIN put_log =>
                  detection_cache[i].result = put_log[detection_cache[i].key].result)
    /\ [][(/\ op' = "detect_sign_fast"
           /\ "lookup" \in stages'
           /\ "classify" \notin stages')
          => detection_cache' = detection_cache]_vars

(* C30 as stated: in a successful result of detect_signs the label, the
   confidence, the hand side and the top-level landmarks all belong to one
   detected hand, the one whose classification was selected as best. *)
C30_TopLevelFieldsOfOneHand ==
    (op = "detect_signs" /\ ret.success) =>
        \E i \in DOMAIN arg.image.hands :
            /\ accurate_classify_hand_sign(
                   detect_hands(arg.image)[i].bbox,
                   detect_hands(arg.image)[i].hand_label,
                   arg.image.hands[i].responses)
                   = Best(ret.all_detections)
            /\ ret.label = Best(ret.all_detections).label
            /\ ret.confidence = Best(ret.all_detections).confidence
            /\ ret.hand = detect_hands(arg.image)[i].hand_label
            /\ ret.landmarks = detect_hands(arg.image)[i].landmarks

\* C28: across /detect-demo requests in which hands are detected the series
\* position starts at 0 and advances by exactly one modulo 4, at most once
\* per distinct wall-clock second; the responses follow the order tolong,
\* saya, delay, delay; a request without a detected hand leaves the counter
\* unchanged.
SeriesOrder == <<"tolong", "saya", "delay", "delay">>

Shown(response) ==
    IF response.success THEN response.label ELSE response.series_state

====
